---- MODULE Spec2Model ----
(***************************************************************************)
(* The SQLAlchemy storage backend of cliquet                               *)
(* (src/cliquet/storage/sqlalchemy/__init__.py).                           *)
(*                                                                         *)
(* The durable store holds three tables: the records of the collection     *)
(* class bound to the storage (primary key: id alone), the "deleted"       *)
(* table of tombstones (primary key: id, parent_id, collection_id) and the *)
(* "timestamps" table (primary key: parent_id, collection_id).  Every      *)
(* request runs in its own session; what a session has written reaches     *)
(* the tables when its transaction commits, and a statement that violates  *)
(* a primary key rolls the whole transaction back.  A request is therefore *)
(* a short sequence of steps: the SELECTs and the reads of the wall clock  *)
(* that the handler makes, then one commit step that applies its writes.   *)
(*                                                                         *)
(* One collection class is bound to the storage and callers pass the       *)
(* collection_id that names it, so a scope (parent_id, collection_id) is   *)
(* identified by its parent_id.  Records carry one attribute, name.        *)
(* Timestamps are kept as the clock values the code stores; the conversion *)
(* to POSIX seconds at the boundary is strictly increasing and is not      *)
(* applied.  flush() and initialize_schema(), which drop every table, are  *)
(* maintenance operations outside the request path and are not part of    *)
(* the next-state relation.                                                *)
(***************************************************************************)
EXTENDS Integers, FiniteSets, Sequences, TLC

\* ---------------------------------------------------------------- bounds
\* Largest value of the wall clock, largest record id, and the number of
\* calls explored with one request thread and with two.
MaxClock == 1
MaxId == 2
MaxCalls == 4
MaxConcurrentCalls == 3

Parents == {"p1", "p2"}
Names == {"a", "b"}
Requests == {"r1", "r2"}
Rank(r) == IF r = "r1" THEN 1 ELSE 2

Times == 0..MaxClock
Ids == 1..MaxId

VARIABLES clock, records, deleted, timestamps, next_id, pc, session, last,
          calls, concurrent

vars == <<clock, records, deleted, timestamps, next_id, pc, session, last,
          calls, concurrent>>
tables == <<records, deleted, timestamps>>

\* ---------------------------------------------------------------- helpers
NoSession == [op |-> "none"]
NoCall == [op |-> "none", status |-> "none"]

\* Session.query(self.collection).get(object_id): the rows with that primary
\* key (none or one); parent_id takes no part in the lookup.
QueryGet(object_id) == {row \in records : row.id = object_id}

\* The last_modified of the scope's row of the timestamps table (none or one).
TimestampOf(parent_id) ==
  {t.last_modified : t \in {u \in timestamps : u.parent_id = parent_id}}

\* SQLABaseObject.deserialize: the row as a mapping of its columns.
deserialize(obj) ==
  [id |-> obj.id, parent_id |-> obj.parent_id, name |-> obj.name,
   last_modified |-> obj.last_modified, deleted |-> obj.deleted]

\* A filter list: empty, or name == the value it holds.
Filters == {{}} \cup {{n} : n \in Names}
Matches(row, filters) == filters = {} \/ row.name \in filters

\* datetime.datetime.utcnow(): the wall clock has advanced since it was last
\* read, or has not.
Now == {t \in Times : t = clock \/ t = clock + 1}

\* The parents are interchangeable until one has been named: the first call
\* names p1.
CallParents == IF calls = 0 THEN {"p1"} ELSE Parents

\* A request thread takes up a call.  The threads are interchangeable, so
\* the second one is used only while the first is busy, and only when the
\* server runs two of them.
Begin(r) ==
  /\ pc[r] = "idle"
  /\ calls < (IF concurrent THEN MaxConcurrentCalls ELSE MaxCalls)
  /\ \A q \in Requests : Rank(q) < Rank(r) => (concurrent /\ pc[q] # "idle")
  /\ calls' = calls + 1
  /\ UNCHANGED concurrent

Continue(r, label) ==
  /\ pc[r] = label
  /\ UNCHANGED <<calls, concurrent>>

Finish(r, call) ==
  /\ pc' = [pc EXCEPT ![r] = "idle"]
  /\ session' = [session EXCEPT ![r] = NoSession]
  /\ last' = call

Goto(r, label, sess) ==
  /\ pc' = [pc EXCEPT ![r] = label]
  /\ session' = [session EXCEPT ![r] = sess]
  /\ UNCHANGED last

\* ---------------------------------------------------------------- state
Init ==
  /\ clock = 0
  /\ records = {}
  /\ deleted = {}
  /\ timestamps = {}
  /\ next_id = 1
  /\ pc = [r \in Requests |-> "idle"]
  /\ session = [r \in Requests |-> NoSession]
  /\ last = NoCall
  /\ calls = 0
  /\ concurrent \in BOOLEAN

\* ------------------------------------------------- collection_timestamp
\* collection_timestamp setting the row it finds to the clock.
collection_timestamp_touch(r, parent_id, now) ==
  /\ Begin(r)
  /\ IF TimestampOf(parent_id) # {}
       THEN /\ now = clock
            /\ timestamps' = {t \in timestamps : t.parent_id # parent_id}
                               \cup {[parent_id |-> parent_id, last_modified |-> now]}
            /\ Finish(r, [op |-> "collection_timestamp", status |-> "ok",
                          parent_id |-> parent_id, inserted |-> FALSE,
                          value |-> {now}])
       ELSE /\ Goto(r, "collection_timestamp_add",
                    [op |-> "collection_timestamp", parent_id |-> parent_id,
                     last_modified |-> now])
            /\ UNCHANGED timestamps
  /\ clock' = now
  /\ UNCHANGED <<records, deleted, next_id>>

\* The SELECT max(last_modified) and, when no row is found, the clock read.
collection_timestamp(r, parent_id, now) ==
  /\ Begin(r)
  /\ IF TimestampOf(parent_id) # {}
       THEN /\ now = clock
            /\ Finish(r, [op |-> "collection_timestamp", status |-> "ok",
                          parent_id |-> parent_id, inserted |-> FALSE,
                          value |-> TimestampOf(parent_id)])
       ELSE Goto(r, "collection_timestamp_add",
                 [op |-> "collection_timestamp", parent_id |-> parent_id,
                  last_modified |-> now])
  /\ clock' = now
  /\ UNCHANGED <<records, deleted, timestamps, next_id>>

\* with transaction.manager: Session.add(Timestamps(...)), committed.  A row
\* inserted meanwhile makes the INSERT fail on the primary key.
collection_timestamp_add(r) ==
  /\ Continue(r, "collection_timestamp_add")
  /\ LET s == session[r] IN
       IF TimestampOf(s.parent_id) # {}
         THEN /\ Finish(r, [op |-> "collection_timestamp", status |-> "IntegrityError",
                            parent_id |-> s.parent_id, inserted |-> FALSE, value |-> {}])
              /\ UNCHANGED timestamps
         ELSE /\ timestamps' = timestamps \cup
                   {[parent_id |-> s.parent_id, last_modified |-> s.last_modified]}
              /\ Finish(r, [op |-> "collection_timestamp", status |-> "ok",
                            parent_id |-> s.parent_id, inserted |-> TRUE,
                            value |-> {s.last_modified}])
  /\ UNCHANGED <<clock, records, deleted, next_id>>

\* -------------------------------------------------------------- create
\* Serial ids that sessions holding an object without id will still draw.
PendingSerial ==
  Cardinality({r \in Requests : pc[r] \in {"create_before_flush", "create_flush"}
                                 /\ session[r].obj.ids = {}})

\* self.collection(**record); obj.parent_id = parent_id;
\* setattr(obj, modified_field, utcnow()).  ids is the id the record dict
\* carries (none or one); without one the id column is filled by the table's
\* sequence at INSERT.
StampNew(r, op, parent_id, object_id, ids, name, now) ==
  /\ ids = {} => next_id + PendingSerial <= MaxId
  /\ Goto(r, "create_before_flush",
          [op |-> op, parent_id |-> parent_id, object_id |-> object_id,
           obj |-> [ids |-> ids, parent_id |-> parent_id, name |-> name,
                    last_modified |-> now, deleted |-> FALSE],
           before |-> TimestampOf(parent_id)])

create(r, parent_id, ids, name, now) ==
  /\ Begin(r)
  /\ StampNew(r, "create", parent_id, {}, ids, name, now)
  /\ clock' = now
  /\ UNCHANGED <<records, deleted, timestamps, next_id>>

\* The before_flush listener: for the new trackable instance it fetches the
\* scope's Timestamps row and assigns utcnow() to it; with no row the
\* assignment raises AttributeError.
populate_timestamps_table(r, now) ==
  /\ Continue(r, "create_before_flush")
  /\ LET s == session[r] IN
       IF TimestampOf(s.parent_id) = {}
         THEN /\ now = clock
              /\ Finish(r, [op |-> s.op, status |-> "AttributeError",
                            parent_id |-> s.parent_id, object_id |-> s.object_id,
                            record |-> {}])
         ELSE Goto(r, "create_flush", s @@ [timestamp |-> now])
  /\ clock' = now
  /\ UNCHANGED <<records, deleted, timestamps, next_id>>

\* The timestamps table with the scope's row set to value.
MergeTimestamp(parent_id, value) ==
  {t \in timestamps : t.parent_id # parent_id}
    \cup {[parent_id |-> parent_id, last_modified |-> value]}

\* create_flush keeping the UPDATE of timestamps when the INSERT fails.
create_flush_no_rollback(r) ==
  /\ Continue(r, "create_flush")
  /\ LET s == session[r]
         new_id == IF s.obj.ids = {} THEN next_id ELSE CHOOSE i \in s.obj.ids : TRUE
         row == [id |-> new_id, parent_id |-> s.obj.parent_id, name |-> s.obj.name,
                 last_modified |-> s.obj.last_modified, deleted |-> s.obj.deleted]
     IN
       /\ next_id' = IF s.obj.ids = {} THEN next_id + 1 ELSE next_id
       /\ timestamps' = MergeTimestamp(s.parent_id, s.timestamp)
       /\ IF QueryGet(new_id) # {}
            THEN /\ UNCHANGED records
                 /\ Finish(r, [op |-> s.op, status |-> "UnicityError",
                               parent_id |-> s.parent_id, object_id |-> s.object_id,
                               record |-> {}])
            ELSE /\ records' = records \cup {row}
                 /\ Finish(r, [op |-> s.op, status |-> "ok",
                               parent_id |-> s.parent_id, object_id |-> s.object_id,
                               record |-> {deserialize(row)}])
  /\ UNCHANGED <<clock, deleted>>

\* Session.flush() and the commit of the request: UPDATE timestamps, INSERT
\* the record.  A duplicate primary key raises IntegrityError 23505, which
\* create turns into UnicityError; the transaction is rolled back (the
\* sequence keeps the id it has drawn).
create_flush(r) ==
  /\ Continue(r, "create_flush")
  /\ LET s == session[r]
         new_id == IF s.obj.ids = {} THEN next_id ELSE CHOOSE i \in s.obj.ids : TRUE
         row == [id |-> new_id, parent_id |-> s.obj.parent_id, name |-> s.obj.name,
                 last_modified |-> s.obj.last_modified, deleted |-> s.obj.deleted]
     IN
       /\ next_id' = IF s.obj.ids = {} THEN next_id + 1 ELSE next_id
       /\ IF QueryGet(new_id) # {}
            THEN /\ UNCHANGED <<records, timestamps>>
                 /\ Finish(r, [op |-> s.op, status |-> "UnicityError",
                               parent_id |-> s.parent_id, object_id |-> s.object_id,
                               record |-> {}])
            ELSE /\ records' = records \cup {row}
                 /\ timestamps' = MergeTimestamp(s.parent_id, s.timestamp)
                 /\ Finish(r, [op |-> s.op, status |-> "ok",
                               parent_id |-> s.parent_id, object_id |-> s.object_id,
                               record |-> {deserialize(row)}])
  /\ UNCHANGED <<clock, deleted>>

\* ----------------------------------------------------------------- get
get(r, parent_id, object_id) ==
  /\ Begin(r)
  /\ LET found == QueryGet(object_id) IN
       IF found = {} \/ \E obj \in found : obj.deleted
         THEN Finish(r, [op |-> "get", status |-> "RecordNotFoundError",
                         parent_id |-> parent_id, object_id |-> {object_id},
                         record |-> {}])
         ELSE Finish(r, [op |-> "get", status |-> "ok",
                         parent_id |-> parent_id, object_id |-> {object_id},
                         record |-> {deserialize(obj) : obj \in found}])
  /\ UNCHANGED <<clock, records, deleted, timestamps, next_id>>

\* -------------------------------------------------------------- update
\* Session.query(self.collection).get(object_id); with no row, create is
\* called with record=object (object_id is not passed on); with a row, the
\* supplied attributes are set on it.  has_id: the object dict carries
\* id = object_id.
update(r, parent_id, object_id, has_id, name, now) ==
  /\ Begin(r)
  /\ LET found == QueryGet(object_id) IN
       IF found = {}
         THEN StampNew(r, "update", parent_id, {object_id},
                       IF has_id THEN {object_id} ELSE {}, name, now)
         ELSE /\ now = clock
              /\ Goto(r, "update_commit",
                      [op |-> "update", parent_id |-> parent_id, object_id |-> object_id,
                       obj |-> [(CHOOSE obj \in found : TRUE) EXCEPT !.name = name],
                       before |-> TimestampOf(parent_id)])
  /\ clock' = now
  /\ UNCHANGED <<records, deleted, timestamps, next_id>>

\* The commit of the request: UPDATE of the columns that were set.  The
\* instance is not in session.new, so the listener leaves timestamps alone.
update_commit(r) ==
  /\ Continue(r, "update_commit")
  /\ LET s == session[r] IN
       /\ records' = {IF row.id = s.object_id THEN [row EXCEPT !.name = s.obj.name] ELSE row
                        : row \in records}
       /\ Finish(r, [op |-> "update", status |-> "ok",
                     parent_id |-> s.parent_id, object_id |-> {s.object_id},
                     record |-> {deserialize(s.obj)}])
  /\ UNCHANGED <<clock, deleted, timestamps, next_id>>

\* -------------------------------------------------------------- delete
\* delete without the test of the deleted flag.
delete_unchecked(r, parent_id, object_id, now) ==
  /\ Begin(r)
  /\ LET found == QueryGet(object_id) IN
       IF found = {}
         THEN /\ now = clock
              /\ Finish(r, [op |-> "delete", status |-> "RecordNotFoundError",
                            parent_id |-> parent_id, object_id |-> {object_id},
                            record |-> {}])
         ELSE Goto(r, "delete_commit",
                   [op |-> "delete", parent_id |-> parent_id, object_id |-> object_id,
                    obj |-> [(CHOOSE obj \in found : TRUE)
                               EXCEPT !.deleted = TRUE, !.last_modified = now],
                    before |-> TimestampOf(parent_id)])
  /\ clock' = now
  /\ UNCHANGED <<records, deleted, timestamps, next_id>>

\* Session.query(self.collection).get(object_id); a missing or deleted row
\* raises RecordNotFoundError; otherwise the row is flagged and stamped with
\* utcnow() and a Deleted row with the caller's parent_id is added.
delete(r, parent_id, object_id, now) ==
  /\ Begin(r)
  /\ LET found == QueryGet(object_id) IN
       IF found = {} \/ \E obj \in found : obj.deleted
         THEN /\ now = clock
              /\ Finish(r, [op |-> "delete", status |-> "RecordNotFoundError",
                            parent_id |-> parent_id, object_id |-> {object_id},
                            record |-> {}])
         ELSE Goto(r, "delete_commit",
                   [op |-> "delete", parent_id |-> parent_id, object_id |-> object_id,
                    obj |-> [(CHOOSE obj \in found : TRUE)
                               EXCEPT !.deleted = TRUE, !.last_modified = now],
                    before |-> TimestampOf(parent_id)])
  /\ clock' = now
  /\ UNCHANGED <<records, deleted, timestamps, next_id>>

\* The tombstones whose primary key is (object_id, parent_id, collection).
Tombstones(object_id, parent_id) ==
  {d \in deleted : d.id = object_id /\ d.parent_id = parent_id}

\* The commit of the request: UPDATE of the flagged row, INSERT of the
\* tombstone.  The only new instance is the Deleted row, which is not
\* trackable, so the listener leaves timestamps alone.  A tombstone with the
\* same primary key makes the INSERT fail and the transaction roll back.
delete_commit(r) ==
  /\ Continue(r, "delete_commit")
  /\ LET s == session[r] IN
       IF Tombstones(s.object_id, s.parent_id) # {}
         THEN /\ UNCHANGED <<records, deleted>>
              /\ Finish(r, [op |-> "delete", status |-> "IntegrityError",
                            parent_id |-> s.parent_id, object_id |-> {s.object_id},
                            record |-> {}])
         ELSE /\ records' = {IF row.id = s.object_id
                               THEN [row EXCEPT !.deleted = TRUE,
                                                !.last_modified = s.obj.last_modified]
                               ELSE row : row \in records}
              /\ deleted' = deleted \cup
                   {[id |-> s.object_id, parent_id |-> s.parent_id,
                     last_modified |-> s.obj.last_modified]}
              /\ Finish(r, [op |-> "delete", status |-> "ok",
                            parent_id |-> s.parent_id, object_id |-> {s.object_id},
                            record |-> {deserialize(s.obj)}])
  /\ UNCHANGED <<clock, timestamps, next_id>>

\* ---------------------------------------------------------- delete_all
RECURSIVE Ascending(_)
Ascending(S) ==
  IF S = {} THEN <<>>
  ELSE LET m == CHOOSE x \in S : \A y \in S : x <= y
       IN <<m>> \o Ascending(S \ {m})

Range(f) == {f[i] : i \in DOMAIN f}

\* The SELECT of the ids of the scope's live rows that match the filters.
delete_all(r, parent_id, filters) ==
  /\ Begin(r)
  /\ Goto(r, "delete_all_rows",
          [op |-> "delete_all", parent_id |-> parent_id,
           fetched |-> Ascending({row.id : row \in
                          {x \in records : x.parent_id = parent_id /\ ~x.deleted
                                             /\ Matches(x, filters)}}),
           rows |-> <<>>,
           before |-> TimestampOf(parent_id)])
  /\ UNCHANGED <<clock, records, deleted, timestamps, next_id>>

\* One turn of the list comprehension: the next fetched id becomes a row
\* stamped with its own utcnow().
delete_all_rows(r, now) ==
  /\ Continue(r, "delete_all_rows")
  /\ session[r].fetched # <<>>
  /\ LET s == session[r] IN
       Goto(r, "delete_all_rows",
            [s EXCEPT !.fetched = Tail(s.fetched),
                      !.rows = Append(s.rows, [id |-> Head(s.fetched),
                                               parent_id |-> s.parent_id,
                                               last_modified |-> now])])
  /\ clock' = now
  /\ UNCHANGED <<records, deleted, timestamps, next_id>>

\* delete_all_commit ending after bulk_update_mappings: the rows are flagged
\* and no tombstone is stored.
delete_all_commit_update_only(r) ==
  /\ Continue(r, "delete_all_rows")
  /\ session[r].fetched = <<>>
  /\ LET s == session[r]
         rows == Range(s.rows)
     IN
       /\ records' = {IF \E every \in rows : every.id = row.id
                        THEN [row EXCEPT !.deleted = TRUE,
                                !.last_modified =
                                   (CHOOSE every \in rows : every.id = row.id).last_modified]
                        ELSE row : row \in records}
       /\ Finish(r, [op |-> "delete_all", status |-> "ok",
                     parent_id |-> s.parent_id, rows |-> rows])
  /\ UNCHANGED <<clock, deleted, timestamps, next_id>>

\* bulk_update_mappings, bulk_insert_mappings and the commit of the
\* transaction.manager block.  Bulk operations raise no flush event, so
\* timestamps is not written.  A tombstone with the primary key of one of
\* the rows makes the INSERT fail and the transaction roll back.
delete_all_commit(r) ==
  /\ Continue(r, "delete_all_rows")
  /\ session[r].fetched = <<>>
  /\ LET s == session[r]
         rows == Range(s.rows)
     IN
       IF \E every \in rows : Tombstones(every.id, every.parent_id) # {}
         THEN /\ UNCHANGED <<records, deleted>>
              /\ Finish(r, [op |-> "delete_all", status |-> "IntegrityError",
                            parent_id |-> s.parent_id, rows |-> {}])
         ELSE /\ records' = {IF \E every \in rows : every.id = row.id
                               THEN [row EXCEPT !.deleted = TRUE,
                                       !.last_modified =
                                          (CHOOSE every \in rows : every.id = row.id).last_modified]
                               ELSE row : row \in records}
              /\ deleted' = deleted \cup rows
              /\ Finish(r, [op |-> "delete_all", status |-> "ok",
                            parent_id |-> s.parent_id, rows |-> rows])
  /\ UNCHANGED <<clock, timestamps, next_id>>

\* ------------------------------------------------------- purge_deleted
\* DELETE FROM deleted WHERE parent_id = ... AND collection_id = ...; the
\* before argument (none or one timestamp) is not used.  The result of
\* Session.execute is returned: rowcount is the number of rows it deleted.
purge_deleted(r, parent_id, before) ==
  /\ Begin(r)
  /\ deleted' = {d \in deleted : d.parent_id # parent_id}
  /\ Finish(r, [op |-> "purge_deleted", status |-> "ok", parent_id |-> parent_id,
                before |-> before,
                rowcount |-> Cardinality({d \in deleted : d.parent_id = parent_id})])
  /\ UNCHANGED <<clock, records, timestamps, next_id>>

\* ------------------------------------------------------------- get_all
Limits == {{}, {1}}

\* qry = Session.query(...).filter(parent_id == parent_id); qry.count().
\* filters, sorting and pagination_rules are not used.
get_all(r, parent_id, filters, limit, include_deleted) ==
  /\ Begin(r)
  /\ Goto(r, "get_all_fetch",
          [op |-> "get_all", parent_id |-> parent_id, filters |-> filters,
           limit |-> limit, include_deleted |-> include_deleted,
           total_records |-> Cardinality({row \in records : row.parent_id = parent_id})])
  /\ UNCHANGED <<clock, records, deleted, timestamps, next_id>>

\* The rows qry.all() may return: those of the scope, without the deleted
\* ones unless include_deleted, and any `limit` of them when limit is set.
Pages(parent_id, limit, include_deleted) ==
  LET rows == {row \in records : /\ row.parent_id = parent_id
                                 /\ (include_deleted \/ ~row.deleted)}
  IN IF limit = {} THEN {rows}
     ELSE {page \in SUBSET rows :
             \E n \in limit : Cardinality(page) = (IF Cardinality(rows) < n
                                                     THEN Cardinality(rows) ELSE n)}

get_all_fetch(r, page) ==
  /\ Continue(r, "get_all_fetch")
  /\ LET s == session[r] IN
       /\ page \in Pages(s.parent_id, s.limit, s.include_deleted)
       /\ Finish(r, [op |-> "get_all", status |-> "ok", parent_id |-> s.parent_id,
                     filters |-> s.filters, limit |-> s.limit,
                     include_deleted |-> s.include_deleted,
                     records |-> {deserialize(row) : row \in page},
                     total_records |-> s.total_records])
  /\ UNCHANGED <<clock, records, deleted, timestamps, next_id>>

\* Every step but those of purge_deleted.
NextNoPurge ==
  \/ \E r \in Requests, parent_id \in CallParents, now \in Now :
        collection_timestamp(r, parent_id, now)
  \/ \E r \in Requests : collection_timestamp_add(r)
  \/ \E r \in Requests, parent_id \in CallParents, ids \in {{}} \cup {{i} : i \in Ids},
        name \in Names, now \in Now : create(r, parent_id, ids, name, now)
  \/ \E r \in Requests, now \in Now : populate_timestamps_table(r, now)
  \/ \E r \in Requests : create_flush(r)
  \/ \E r \in Requests, parent_id \in CallParents, object_id \in Ids : get(r, parent_id, object_id)
  \/ \E r \in Requests, parent_id \in CallParents, object_id \in Ids, has_id \in BOOLEAN,
        name \in Names, now \in Now : update(r, parent_id, object_id, has_id, name, now)
  \/ \E r \in Requests : update_commit(r)
  \/ \E r \in Requests, parent_id \in CallParents, object_id \in Ids, now \in Now :
        delete(r, parent_id, object_id, now)
  \/ \E r \in Requests : delete_commit(r)
  \/ \E r \in Requests, parent_id \in CallParents, filters \in Filters :
        delete_all(r, parent_id, filters)
  \/ \E r \in Requests, now \in Now : delete_all_rows(r, now)
  \/ \E r \in Requests : delete_all_commit(r)
  \/ \E r \in Requests, parent_id \in CallParents, filters \in Filters, limit \in Limits,
        include_deleted \in BOOLEAN : get_all(r, parent_id, filters, limit, include_deleted)
  \/ \E r \in Requests, page \in SUBSET records : get_all_fetch(r, page)

Next ==
  \/ NextNoPurge
  \/ \E r \in Requests, parent_id \in CallParents, before \in {{}} \cup {{t} : t \in Times} :
        purge_deleted(r, parent_id, before)

Spec == Init /\ [][Next]_vars

\* The runs in which purge_deleted is never called.
SpecNoPurge == Init /\ [][NextNoPurge]_vars
\* ======================================================== properties ====
\* What a step is, read off two successive states.

\* The thread r ends its call in this step (a call that takes one step ends
\* in the step that takes it up).
Ends(r) == pc[r] # "idle" /\ pc'[r] = "idle"
Immediate == calls' = calls + 1 /\ pc' = pc

\* A call op(parent_id, object_id) is taken up in this step.
CallOn(op, parent_id, object_id) ==
  /\ calls' = calls + 1
  /\ \/ /\ pc' = pc
        /\ last'.op = op /\ last'.parent_id = parent_id /\ last'.object_id = {object_id}
     \/ \E r \in Requests :
          /\ pc[r] = "idle" /\ pc'[r] # "idle"
          /\ session'[r].op = op /\ session'[r].parent_id = parent_id
          /\ session'[r].object_id = object_id

\* The collection timestamp of a scope after the step.
TimestampAfter(parent_id) ==
  {t.last_modified : t \in {u \in timestamps' : u.parent_id = parent_id}}

\* The collection timestamp `after` is strictly greater than `before` (each
\* none or one value).
Advanced(before, after) ==
  /\ after # {}
  /\ \A a \in before, b \in after : b > a

\* C1: the collection timestamp of a scope never decreases, and every
\* successful create, update, delete or delete_all on a scope leaves it
\* strictly greater than it was when the call was taken up (a delete_all
\* that found nothing to delete is not counted).
C1_TimestampStrictlyAdvances ==
  [][ /\ \A p \in Parents : \A a \in TimestampOf(p) :
           TimestampOf(p)' # {} /\ \A b \in TimestampOf(p)' : b >= a
      /\ \A r \in Requests :
           (Ends(r) /\ last'.status = "ok"
              /\ \/ session[r].op \in {"create", "update", "delete"}
                 \/ session[r].op = "delete_all" /\ last'.rows # {})
           => Advanced(session[r].before, TimestampAfter(session[r].parent_id))
    ]_vars

\* C2: the timestamp a committing create, update or delete stamps on its
\* record is strictly greater than every timestamp stamped so far on the
\* records of that scope, whatever the interleaving and the clock values.
C2_StampsDistinctInCommitOrder ==
  [][ \A r \in Requests :
        (Ends(r) /\ last'.status = "ok" /\ session[r].op \in {"create", "update", "delete"})
        => \A rec \in last'.record : \A row \in records :
             row.parent_id = session[r].parent_id
               => rec.last_modified > row.last_modified
    ]_vars

\* C3: a row written by a step carries the collection timestamp its scope has
\* after that step, and no record's last_modified is ever greater than the
\* collection timestamp of its scope.
C3_RecordStampIsCollectionTimestamp ==
  [][ /\ \A row \in records' \ records :
           TimestampOf(row.parent_id)' = {row.last_modified}
      /\ \A row \in records' :
           /\ TimestampOf(row.parent_id)' # {}
           /\ \A t \in TimestampOf(row.parent_id)' : row.last_modified <= t
    ]_vars

\* C4: a deleted record stays deleted, and a get or a delete of its id taken
\* up while it is deleted ends at once with RecordNotFoundError and leaves
\* records, tombstones and collection timestamps as they were.
C4_DeletedStaysNotFound ==
  [][ /\ \A row \in records : row.deleted =>
           \E kept \in records' : kept.id = row.id /\ kept.deleted
      /\ \A object_id \in Ids, parent_id \in Parents :
           ( /\ \E row \in records : row.id = object_id /\ row.deleted
             /\ CallOn("get", parent_id, object_id) \/ CallOn("delete", parent_id, object_id) )
           => /\ Immediate
              /\ last'.status = "RecordNotFoundError"
              /\ UNCHANGED tables
    ]_vars

\* C4 witness: a delete of a deleted id has ended with RecordNotFoundError,
\* the record and its tombstone in place.
C4_Witness ==
  /\ last.op = "delete" /\ last.status = "RecordNotFoundError"
  /\ \E row \in records : /\ last.object_id = {row.id}
                          /\ row.deleted
                          /\ Tombstones(row.id, last.parent_id) # {}

\* C5: the step in which a create ends with UnicityError writes no record and
\* leaves every collection timestamp as it was; with no other request in
\* flight the scope's timestamp is the one the call found when taken up.
C5_UnicityErrorWritesNothing ==
  [][ \A r \in Requests :
        (Ends(r) /\ last'.status = "UnicityError")
        => /\ UNCHANGED tables
           /\ ~concurrent => TimestampAfter(session[r].parent_id) = session[r].before
    ]_vars

\* C5 witness: a create has ended with UnicityError in a scope that has a
\* collection timestamp and a record.
C5_Witness ==
  /\ last.op = "create" /\ last.status = "UnicityError"
  /\ TimestampOf(last.parent_id) # {}
  /\ records # {}

\* C6: a delete_all that deletes something stamps all its rows with one
\* value, which is the collection timestamp after the call and is strictly
\* greater than the collection timestamp before it.
C6_DeleteAllSharesOneStamp ==
  [][ \A r \in Requests :
        (Ends(r) /\ last'.status = "ok" /\ session[r].op = "delete_all"
           /\ last'.rows # {})
        => /\ \A every \in last'.rows :
                TimestampAfter(session[r].parent_id) = {every.last_modified}
           /\ Advanced(session[r].before, TimestampAfter(session[r].parent_id))
    ]_vars

\* C7: as long as purge_deleted is not called, the records with deleted=true
\* that get_all(include_deleted=true) returns for a scope are as many as the
\* tombstones stored for that scope.
C7_DeletedCountEqualsTombstones ==
  \A p \in Parents : \A page \in Pages(p, {}, TRUE) :
    Cardinality({row \in page : row.deleted})
      = Cardinality({d \in deleted : d.parent_id = p})

\* C8: purge_deleted(before=T) removes exactly the scope's tombstones with
\* last_modified < T and reports how many it removed.
C8_PurgeRemovesOlderOnly ==
  [][ (Immediate /\ last'.op = "purge_deleted")
      => \A t \in last'.before :
           /\ deleted' = {d \in deleted :
                            ~(d.parent_id = last'.parent_id /\ d.last_modified < t)}
           /\ last'.rowcount = Cardinality(deleted \ deleted')
    ]_vars

\* C9: the total get_all counts is the number of the scope's records that
\* match the filters under the deleted-inclusion policy of the page,
\* whatever the limit.
C9_TotalCountFollowsPolicy ==
  [][ \A r \in Requests :
        (pc[r] = "idle" /\ pc'[r] = "get_all_fetch")
        => session'[r].total_records
             = Cardinality({row \in records :
                              /\ row.parent_id = session'[r].parent_id
                              /\ Matches(row, session'[r].filters)
                              /\ (session'[r].include_deleted \/ ~row.deleted)})
    ]_vars

\* C10: a get or a delete taken up for (parent_id, object_id) while that
\* scope holds no live record with that id ends at once with
\* RecordNotFoundError and leaves every table as it was.
C10_OtherScopeNotFound ==
  [][ \A object_id \in Ids, parent_id \in Parents :
        ( /\ ~ \E row \in records : /\ row.id = object_id
                                    /\ row.parent_id = parent_id
                                    /\ ~row.deleted
          /\ CallOn("get", parent_id, object_id) \/ CallOn("delete", parent_id, object_id) )
        => /\ Immediate
           /\ last'.status = "RecordNotFoundError"
           /\ UNCHANGED tables
    ]_vars

\* C11: an update of an object_id no record carries, when it succeeds,
\* writes a live record of the caller's scope whose id is object_id and whose
\* attributes are the supplied ones, so that a get of (parent_id, object_id)
\* taken up next returns it.
C11_UpdateCreatesUnderObjectId ==
  [][ \A r \in Requests :
        (Ends(r) /\ pc[r] = "create_flush" /\ session[r].op = "update"
           /\ last'.status = "ok")
        => /\ \A rec \in last'.record : {rec.id} = session[r].object_id
           /\ \E row \in records' :
                /\ {row.id} = session[r].object_id
                /\ row.parent_id = session[r].parent_id
                /\ row.name = session[r].obj.name
                /\ ~row.deleted
    ]_vars

\* C13: a create taken up on a scope that has no collection timestamp row
\* does not fail for the lack of it, and when it succeeds the scope has its
\* row.
C13_CreateOnUntouchedScope ==
  [][ \A r \in Requests :
        (Ends(r) /\ pc[r] \in {"create_before_flush", "create_flush"}
           /\ session[r].before = {})
        => /\ last'.status # "AttributeError"
           /\ last'.status = "ok" => TimestampAfter(session[r].parent_id) # {}
    ]_vars

\* C14: a successful delete of a record of the caller's scope leaves exactly one
\* tombstone for that pair, and the tombstone, the deleted record and the
\* scope's collection timestamp all carry the one timestamp of the delete.
C14_DeleteLeavesOneTombstone ==
  [][ \A r \in Requests :
        (Ends(r) /\ pc[r] = "delete_commit" /\ last'.status = "ok"
           /\ \E row \in records : /\ row.id = session[r].object_id
                                   /\ row.parent_id = session[r].parent_id)
        => LET s == session[r]
               stones == {d \in deleted' : d.id = s.object_id /\ d.parent_id = s.parent_id}
           IN /\ Cardinality(stones) = 1
              /\ \A d \in stones : \A row \in records' :
                   row.id = s.object_id
                     => /\ row.deleted
                        /\ row.last_modified = d.last_modified
                        /\ TimestampAfter(s.parent_id) = {d.last_modified}
    ]_vars

\* C12: no step of get, get_all or collection_timestamp changes records or
\* tombstones, and the only change such a step makes to the collection
\* timestamps is the insertion of the row of a scope that had none, by
\* collection_timestamp.  A collection_timestamp that succeeds returns the
\* value of the scope's row, so one that ends right after another on the
\* same scope returns the same value.
C12_ReadsWriteNothing ==
  [][ /\ (Immediate /\ last'.op = "get") => UNCHANGED tables
      /\ \A r \in Requests :
           (pc[r] = "idle" /\ pc'[r] \in {"get_all_fetch", "collection_timestamp_add"})
           => UNCHANGED tables
      /\ \A r \in Requests :
           (Ends(r) /\ pc[r] = "get_all_fetch") => UNCHANGED tables
      /\ (Immediate /\ last'.op = "collection_timestamp") => UNCHANGED tables
      /\ \A r \in Requests :
           (Ends(r) /\ pc[r] = "collection_timestamp_add")
           => /\ UNCHANGED <<records, deleted>>
              /\ \/ UNCHANGED timestamps
                 \/ /\ TimestampOf(session[r].parent_id) = {}
                    /\ \E t \in Times :
                         timestamps' = timestamps \cup
                           {[parent_id |-> session[r].parent_id, last_modified |-> t]}
      /\ (last' # last /\ last'.op = "collection_timestamp" /\ last'.status = "ok")
           => /\ last'.value = TimestampAfter(last'.parent_id)
              /\ (last.op = "collection_timestamp" /\ last.status = "ok"
                    /\ last.parent_id = last'.parent_id)
                 => last'.value = last.value
    ]_vars

\* C12 witness: a collection_timestamp has found the row of a scope that
\* holds a record, and returned its value.
C12_Witness ==
  /\ last.op = "collection_timestamp" /\ last.status = "ok" /\ ~last.inserted
  /\ last.value = TimestampOf(last.parent_id)
  /\ \E row \in records : row.parent_id = last.parent_id

\* C15: a scope never has more than one collection timestamp row, and a
\* collection_timestamp that found no row, whatever other first call on the
\* scope ran in between, ends without error and returns the value of the
\* scope's one row.  (A create on a scope without row fails with or without
\* a race, which is C13.)
C15_FirstTouchRace ==
  [][ /\ \A p \in Parents : Cardinality({t \in timestamps' : t.parent_id = p}) <= 1
      /\ \A r \in Requests :
           (Ends(r) /\ pc[r] = "collection_timestamp_add")
           => /\ last'.status = "ok"
              /\ last'.value = TimestampAfter(session[r].parent_id)
    ]_vars

Stamped ==
  {row \in records' : ~ \E old \in records :
                           old.id = row.id /\ old.last_modified = row.last_modified}

\* C17: what a read returns is what one state of the tables holds, and no
\* state shows half of a mutation.  The count and the page of a get_all fit
\* one state of the scope (the page is never larger than the count, and is as
\* large when nothing is limited or left out); a step that stamps a record
\* leaves the scope's collection timestamp changed, or already no less than
\* that stamp, and a step that changes a collection timestamp stamps a
\* record of the scope.
C17_NoTornRead ==
  [][ /\ \A r \in Requests :
           (Ends(r) /\ pc[r] = "get_all_fetch")
           => /\ Cardinality(last'.records) <= last'.total_records
              /\ (last'.include_deleted /\ last'.limit = {})
                   => Cardinality(last'.records) = last'.total_records
      /\ \A row \in Stamped :
           \/ TimestampAfter(row.parent_id) # TimestampOf(row.parent_id)
           \/ /\ TimestampAfter(row.parent_id) # {}
              /\ \A t \in TimestampAfter(row.parent_id) : t >= row.last_modified
      /\ \A p \in Parents :
           (TimestampOf(p) # {} /\ TimestampAfter(p) # TimestampOf(p))
           => \E row \in Stamped : row.parent_id = p
    ]_vars

\* C18: the step in which an update of a record of the caller's scope is
\* committed sets the supplied attribute on that record, leaves its id,
\* parent_id and deleted flag and every other record as they were, and gives
\* the record a last_modified strictly greater than the one it had.
C18_UpdateRestamps ==
  [][ \A r \in Requests :
        (Ends(r) /\ pc[r] = "update_commit" /\ last'.status = "ok"
           /\ \E row \in records : /\ row.id = session[r].object_id
                                   /\ row.parent_id = session[r].parent_id)
        => LET s == session[r] IN
             /\ \A row \in records : row.id # s.object_id => row \in records'
             /\ \A old \in records : old.id = s.object_id =>
                  \E row \in records' :
                    /\ row.id = old.id
                    /\ row.name = s.obj.name
                    /\ row.parent_id = old.parent_id
                    /\ row.deleted = old.deleted
                    /\ row.last_modified > old.last_modified
    ]_vars

\* C19: every record a get_all returns belongs to the scope asked for and
\* satisfies every filter of the call, and is deleted only if the call asked
\* for deleted records.
C19_GetAllAppliesFilters ==
  last.op = "get_all"
    => \A rec \in last.records :
         /\ rec.parent_id = last.parent_id
         /\ Matches(rec, last.filters)
         /\ rec.deleted => last.include_deleted

\* C20: once a collection_timestamp of a scope has returned T, a create,
\* update, delete or delete_all of that scope that commits next writes only
\* records and tombstones whose last_modified is strictly greater than T.
C20_WritesAfterReadAreLater ==
  [][ \A r \in Requests :
        ( /\ last.op = "collection_timestamp" /\ last.status = "ok"
          /\ Ends(r) /\ last'.status = "ok"
          /\ session[r].op \in {"create", "update", "delete", "delete_all"}
          /\ session[r].parent_id = last.parent_id )
        => \A t \in last.value :
             /\ \A row \in records' \ records : row.last_modified > t
             /\ \A d \in deleted' \ deleted : d.last_modified > t
    ]_vars
====
